---- MODULE Spec2Model ----
(***************************************************************************)
(* A model of the library API: the books table, the storage accessor       *)
(* (db/db.go) and the HTTP handlers (handlers/book_handler.go).            *)
(*                                                                         *)
(* Every SQL statement is one atomic step; a request is the sequence of    *)
(* the statements its handler issues.  Strings are sequences of one-       *)
(* character strings so that trimming, integer parsing and LIKE matching   *)
(* are computed, not assumed.  An optional value (a Go pointer, a JSON     *)
(* field that may be missing) is <<>> when absent and <<v>> when present.  *)
(***************************************************************************)
EXTENDS Integers, Sequences, FiniteSets, TLC

\* INSERT, UPDATE and DELETE statements executed in one behaviour (this caps
\* AUTO_INCREMENT too).
MaxWrites == 3
\* Last value of the storage clock (CURRENT_TIMESTAMP, whole seconds).
MaxClock == 1
\* Requests in flight together in the concurrent specifications.
NumClients == 2

VARIABLES
    books,    \* the table: id -> row, its domain the ids present
    nextId,   \* the table's AUTO_INCREMENT counter
    clock,    \* the storage engine's CURRENT_TIMESTAMP
    pc,       \* per client: the statement its request is about to run
    req,      \* per client: the request as sent
    local,    \* per client: the handler's and accessor's local variables
    resp,     \* per client: the response written
    pre,      \* per client: the table as it was when the request arrived
    writes    \* the write statements executed so far

vars == <<books, nextId, clock, pc, req, local, resp, pre, writes>>

----------------------------------------------------------------------------
(* Strings *)

Space == {" ", "\t", "\n", "\r"}
Digits == {"0", "1", "2", "3", "4", "5", "6", "7", "8", "9"}

RECURSIVE TrimLeft(_)
TrimLeft(s) ==
    IF s # <<>> /\ Head(s) \in Space THEN TrimLeft(Tail(s)) ELSE s

RECURSIVE TrimRight(_)
TrimRight(s) ==
    IF s # <<>> /\ s[Len(s)] \in Space
    THEN TrimRight(SubSeq(s, 1, Len(s) - 1))
    ELSE s

\* The identity: a handler that forgets to trim.
TrimSpaceNone(s) == s

\* strings.TrimSpace
TrimSpace(s) == TrimRight(TrimLeft(s))

DigitVal(c) ==
    CASE c = "0" -> 0 [] c = "1" -> 1 [] c = "2" -> 2 [] c = "3" -> 3
      [] c = "4" -> 4 [] c = "5" -> 5 [] c = "6" -> 6 [] c = "7" -> 7
      [] c = "8" -> 8 [] c = "9" -> 9

RECURSIVE DecimalValue(_)
DecimalValue(s) ==
    IF s = <<>> THEN 0
    ELSE 10 * DecimalValue(SubSeq(s, 1, Len(s) - 1)) + DigitVal(s[Len(s)])

\* A parser that reads every non-number as 0.
AtoiLenient(s) ==
    LET signed == s # <<>> /\ Head(s) \in {"+", "-"}
        digits == IF signed THEN Tail(s) ELSE s
    IN  IF digits = <<>> \/ \E i \in 1..Len(digits) : digits[i] \notin Digits
        THEN [ok |-> TRUE, val |-> 0]
        ELSE [ok |-> TRUE,
              val |-> IF signed /\ Head(s) = "-"
                      THEN 0 - DecimalValue(digits) ELSE DecimalValue(digits)]

\* strconv.Atoi: an optional sign, then one or more decimal digits.
Atoi(s) ==
    LET signed == s # <<>> /\ Head(s) \in {"+", "-"}
        digits == IF signed THEN Tail(s) ELSE s
    IN  IF digits = <<>> \/ \E i \in 1..Len(digits) : digits[i] \notin Digits
        THEN [ok |-> FALSE, val |-> 0]
        ELSE [ok |-> TRUE,
              val |-> IF signed /\ Head(s) = "-"
                      THEN 0 - DecimalValue(digits) ELSE DecimalValue(digits)]

\* The collation utf8mb4_unicode_ci compares letters without regard to case.
Fold(c) ==
    CASE c = "A" -> "a" [] c = "B" -> "b" [] c = "C" -> "c" [] c = "D" -> "d"
      [] OTHER -> c

\* SQL LIKE: % is any run of characters, _ any one character, \ escapes.
RECURSIVE Like(_, _)
Like(s, pat) ==
    IF pat = <<>> THEN s = <<>>
    ELSE IF Head(pat) = "%"
         THEN Like(s, Tail(pat)) \/ (s # <<>> /\ Like(Tail(s), pat))
    ELSE IF Head(pat) = "\\" /\ Len(pat) >= 2
         THEN /\ s # <<>>
              /\ Fold(Head(s)) = Fold(pat[2])
              /\ Like(Tail(s), Tail(Tail(pat)))
    ELSE /\ s # <<>>
         /\ (Head(pat) = "_" \/ Fold(Head(s)) = Fold(Head(pat)))
         /\ Like(Tail(s), Tail(pat))

----------------------------------------------------------------------------
(* Rows and statements *)

Min(a, b) == IF a < b THEN a ELSE b
Max(a, b) == IF a > b THEN a ELSE b

\* models.Book: a row together with its key.
Book(tbl, id) ==
    [id |-> id, title |-> tbl[id].title, author |-> tbl[id].author,
     published_year |-> tbl[id].published_year,
     available |-> tbl[id].available,
     created_at |-> tbl[id].created_at, updated_at |-> tbl[id].updated_at]

\* SELECT ... FROM books WHERE id = ?: the row, or none (sql.ErrNoRows).
GetBookByID(tbl, id) ==
    IF id \in DOMAIN tbl THEN <<Book(tbl, id)>> ELSE <<>>

\* An accessor that ignores the request's availability.
CreateAvailableAlwaysTrue(available) == TRUE

\* CreateBook's default: available unless the request says otherwise.
CreateAvailable(available) ==
    IF available # <<>> THEN available[1] ELSE TRUE

\* INSERT INTO books (title, author, published_year, available): both
\* timestamps take the column default CURRENT_TIMESTAMP.
InsertRow(tbl, id, r, now) ==
    tbl @@ (id :> [title |-> r.title[1], author |-> r.author[1],
                   published_year |-> r.year[1],
                   available |-> CreateAvailable(r.available),
                   created_at |-> now, updated_at |-> now])

\* A SET clause that leaves updated_at alone.
SetClauseNoTimestamp(row, r, now) ==
    [row EXCEPT
        !.title = IF r.title # <<>> THEN r.title[1] ELSE @,
        !.author = IF r.author # <<>> THEN r.author[1] ELSE @,
        !.published_year = IF r.year # <<>> THEN r.year[1] ELSE @,
        !.available = IF r.available # <<>> THEN r.available[1] ELSE @]

\* A SET clause that resets availability when the request omits it.
SetClauseResetAvailable(row, r, now) ==
    [row EXCEPT
        !.title = IF r.title # <<>> THEN r.title[1] ELSE @,
        !.author = IF r.author # <<>> THEN r.author[1] ELSE @,
        !.published_year = IF r.year # <<>> THEN r.year[1] ELSE @,
        !.available = IF r.available # <<>> THEN r.available[1] ELSE TRUE,
        !.updated_at = now]

\* UpdateBook's SET clause: the supplied columns, then
\* updated_at = CURRENT_TIMESTAMP.
SetClause(row, r, now) ==
    [row EXCEPT
        !.title = IF r.title # <<>> THEN r.title[1] ELSE @,
        !.author = IF r.author # <<>> THEN r.author[1] ELSE @,
        !.published_year = IF r.year # <<>> THEN r.year[1] ELSE @,
        !.available = IF r.available # <<>> THEN r.available[1] ELSE @,
        !.updated_at = now]

\* A count of the SET clause's assignments, updated_at among them.
NumUpdatesWithTimestamp(r) ==
    1 + (IF r.title # <<>> THEN 1 ELSE 0) + (IF r.author # <<>> THEN 1 ELSE 0)
    + (IF r.year # <<>> THEN 1 ELSE 0) + (IF r.available # <<>> THEN 1 ELSE 0)

\* UpdateBook's len(updates): the number of columns the request supplies.
NumUpdates(r) ==
    (IF r.title # <<>> THEN 1 ELSE 0) + (IF r.author # <<>> THEN 1 ELSE 0)
    + (IF r.year # <<>> THEN 1 ELSE 0) + (IF r.available # <<>> THEN 1 ELSE 0)

\* An UPDATE that inserts the row when the id is not there.
UpdateRowsUpsert(tbl, id, r, now) ==
    IF id \in DOMAIN tbl
    THEN [tbl EXCEPT ![id] = SetClause(@, r, now)]
    ELSE tbl @@ (id :> [title |-> <<>>, author |-> <<>>,
                        published_year |-> 1000, available |-> TRUE,
                        created_at |-> now, updated_at |-> now])

\* UPDATE books SET ... WHERE id = ?: no row matched is no error.
UpdateRows(tbl, id, r, now) ==
    IF id \in DOMAIN tbl
    THEN [tbl EXCEPT ![id] = SetClause(@, r, now)]
    ELSE tbl

\* title VARCHAR(255) NOT NULL, author VARCHAR(255) NOT NULL.
ColumnWidth == 255

\* A column that takes a value of any length.
DataTooLongNever(r) == FALSE

\* The server's answer to a value longer than its column: in strict SQL
\* mode (the default of the MariaDB 10.11 server the repository deploys)
\* the statement fails with "Data too long for column".
DataTooLong(r) ==
    \/ (r.title # <<>> /\ Len(r.title[1]) > ColumnWidth)
    \/ (r.author # <<>> /\ Len(r.author[1]) > ColumnWidth)

\* A DELETE whose WHERE clause matches no row.
DeleteRowsNone(tbl, id) == tbl

\* DELETE FROM books WHERE id = ?
DeleteRows(tbl, id) ==
    [i \in DOMAIN tbl \ {id} |-> tbl[i]]

\* The rows a search considers: title LIKE %q% OR author LIKE %q%.
Matching(tbl, q) ==
    LET pat == <<"%">> \o q \o <<"%">>
    IN  {i \in DOMAIN tbl : Like(tbl[i].title, pat) \/ Like(tbl[i].author, pat)}

\* ORDER BY created_at DESC: every order of the rows `ids` with created_at
\* not increasing; rows of one second come in an order the engine chooses.
OrderedRows(tbl, ids) ==
    {s \in [1..Cardinality(ids) -> ids] :
        /\ \A i, j \in 1..Cardinality(ids) : i # j => s[i] # s[j]
        /\ \A i, j \in 1..Cardinality(ids) :
              i < j => tbl[s[i]].created_at >= tbl[s[j]].created_at}

\* A page query without its LIMIT: every row from the offset on.
PageOfNoLimit(tbl, s, limit, offset) ==
    [k \in 1..Max(Len(s) - offset, 0) |-> Book(tbl, s[offset + k])]

\* LIMIT ? OFFSET ? on an ordered result, scanned into []models.Book.
PageOf(tbl, s, limit, offset) ==
    LET last == Min(offset + limit, Len(s))
    IN  [k \in 1..Max(last - offset, 0) |-> Book(tbl, s[offset + k])]

\* int(math.Ceil(float64(total) / float64(limit)))
TotalPages(total, limit) == (total + limit - 1) \div limit

\* A range check that takes the lower bound as exclusive.
ValidYearExclusive(y) == ~(y <= 1000 \/ y > 2100)

\* The handlers' range check on published_year.
ValidYear(y) == ~(y < 1000 \/ y > 2100)

\* A handler that answers 200 whether or not a row came back.
FoundStatusAlways(book, found) == found

\* The handlers' "if book == nil": 404 without a row.
FoundStatus(book, found) == IF book = <<>> THEN 404 ELSE found

----------------------------------------------------------------------------
(* Requests *)

NoBody ==
    [json |-> TRUE, title |-> <<>>, author |-> <<>>, year |-> <<>>,
     available |-> <<>>]

NoReq ==
    [op |-> "none", idStr |-> <<>>, body |-> NoBody,
     pageStr |-> <<>>, limitStr |-> <<>>, q |-> <<>>]

NoLocal ==
    [id |-> 0, body |-> NoBody, start |-> 0,
     page |-> 0, limit |-> 0, q |-> <<>>, total |-> 0, mark |-> 0]

NoResp ==
    [status |-> 0, data |-> <<>>, null |-> FALSE,
     page |-> 0, limit |-> 0, total |-> 0, total_pages |-> 0]

\* A text one character longer than the title and author columns.
LongText == [i \in 1..(ColumnWidth + 1) |-> "x"]

CreateBodies ==
    { [NoBody EXCEPT !.title = << <<" ", "A", "b", " ">> >>,
                     !.author = << <<"c">> >>, !.year = <<1000>>],
      [NoBody EXCEPT !.title = << <<"A", "b">> >>,
                     !.author = << <<"c", " ">> >>, !.year = <<2100>>,
                     !.available = <<FALSE>>],
      [NoBody EXCEPT !.title = << <<"A", "b">> >>,
                     !.author = << <<"c">> >>, !.year = <<1000>>,
                     !.available = <<TRUE>>],
      [NoBody EXCEPT !.title = << <<" ">> >>,
                     !.author = << <<"c">> >>, !.year = <<1000>>],
      [NoBody EXCEPT !.author = << <<"c">> >>, !.year = <<1000>>],
      [NoBody EXCEPT !.title = << <<"A", "b">> >>,
                     !.author = << <<"\t">> >>, !.year = <<1000>>],
      [NoBody EXCEPT !.title = << <<"A", "b">> >>,
                     !.author = << <<"c">> >>],
      [NoBody EXCEPT !.title = << <<"A", "b">> >>,
                     !.author = << <<"c">> >>, !.year = <<999>>],
      [NoBody EXCEPT !.title = << <<"A", "b">> >>,
                     !.author = << <<"c">> >>, !.year = <<2101>>],
      [NoBody EXCEPT !.title = <<LongText>>,
                     !.author = << <<"c">> >>, !.year = <<1000>>],
      [NoBody EXCEPT !.json = FALSE] }

UpdateBodies ==
    { NoBody,
      [NoBody EXCEPT !.title = << <<" ", "b">> >>],
      [NoBody EXCEPT !.author = << <<"D", " ">> >>],
      [NoBody EXCEPT !.year = <<2100>>],
      [NoBody EXCEPT !.year = <<1000>>],
      [NoBody EXCEPT !.available = <<FALSE>>],
      [NoBody EXCEPT !.title = << <<"b">> >>, !.author = << <<"D">> >>,
                     !.year = <<2100>>, !.available = <<FALSE>>],
      [NoBody EXCEPT !.title = << <<" ">> >>],
      [NoBody EXCEPT !.author = << <<>> >>],
      [NoBody EXCEPT !.year = <<999>>],
      [NoBody EXCEPT !.year = <<2101>>],
      [NoBody EXCEPT !.author = <<LongText>>],
      [NoBody EXCEPT !.json = FALSE] }

PageStrs == { <<>>, <<"2">>, <<"0">>, <<"x">> }

LimitStrs == { <<>>, <<"1">>, <<"2">>, <<"0">>, <<"1", "0", "0">>, <<"1", "0", "1">> }

Queries ==
    { <<>>, <<" ">>, <<"a">>, <<" ", "d", " ">>, <<"z">>, <<"%">>, <<"_">> }

\* Creates that give the table titles and authors to search.
ListCreateRequests ==
    { [NoReq EXCEPT !.op = "create", !.body = b] :
        b \in { [NoBody EXCEPT !.title = << <<" ", "A", "b", " ">> >>,
                               !.author = << <<"c">> >>, !.year = <<1000>>],
                [NoBody EXCEPT !.title = << <<"b">> >>,
                               !.author = << <<"D">> >>, !.year = <<2100>>,
                               !.available = <<FALSE>>] } }

\* Every page and limit parameter on the plain list; every query on the
\* first page of the default size and on the second page of size one.
ListRequests ==
    { [NoReq EXCEPT !.op = "list", !.pageStr = pg, !.limitStr = lm] :
        pg \in PageStrs, lm \in LimitStrs }
    \cup { [NoReq EXCEPT !.op = "list", !.pageStr = pl[1], !.limitStr = pl[2],
                         !.q = q] :
             pl \in { <<<<>>, <<>>>>, << <<"2">>, <<"1">> >> }, q \in Queries }

IdStrs == { <<"1">>, <<"2">>, <<"1", "x">>, <<"-", "1">> }

CreateRequests == { [NoReq EXCEPT !.op = "create", !.body = b] : b \in CreateBodies }

UpdateRequests ==
    { [NoReq EXCEPT !.op = "update", !.idStr = i, !.body = b] :
        i \in IdStrs \ {<<"-", "1">>}, b \in UpdateBodies }

GetRequests == { [NoReq EXCEPT !.op = "get", !.idStr = i] : i \in IdStrs }

DeleteRequests == { [NoReq EXCEPT !.op = "delete", !.idStr = i] : i \in IdStrs }

Requests == CreateRequests \cup UpdateRequests \cup GetRequests \cup DeleteRequests

----------------------------------------------------------------------------
(* Steps shared by the handlers *)

Clients == DOMAIN pc

\* sendJSONResponse / sendErrorResponse: the status and, when there is one,
\* the record.
Reply(p, status, data) ==
    /\ pc' = [pc EXCEPT ![p] = "done"]
    /\ resp' = [resp EXCEPT ![p] = [NoResp EXCEPT !.status = status,
                                                  !.data = data]]

\* A request arrives at an idle client.
Arrive(p, r) ==
    /\ pc[p] = "idle"
    /\ req' = [req EXCEPT ![p] = r]
    /\ pre' = [pre EXCEPT ![p] = books]

\* The handler goes on to its accessor's first statement.
Proceed(p, label, l) ==
    /\ pc' = [pc EXCEPT ![p] = label]
    /\ local' = [local EXCEPT ![p] = l]
    /\ resp' = [resp EXCEPT ![p] = NoResp]

\* A write statement is executed (and counted against MaxWrites).
Written ==
    /\ writes < MaxWrites
    /\ writes' = writes + 1

\* JSON decoding into CreateBookRequest: a missing string is "", a missing
\* number 0.
DecodeString(opt) == IF opt = <<>> THEN <<>> ELSE opt[1]
DecodeInt(opt) == IF opt = <<>> THEN 0 ELSE opt[1]

----------------------------------------------------------------------------
(* POST /books *)

BookHandler_CreateBook(p, r) ==
    /\ r.op = "create"
    /\ Arrive(p, r)
    /\ LET title == DecodeString(r.body.title)
           author == DecodeString(r.body.author)
           year == DecodeInt(r.body.year)
       IN  IF ~r.body.json
              \/ TrimSpace(title) = <<>>
              \/ TrimSpace(author) = <<>>
              \/ ~ValidYear(year)
           THEN /\ Reply(p, 400, <<>>)
                /\ local' = [local EXCEPT ![p] = NoLocal]
           ELSE Proceed(p, "create_insert",
                      [NoLocal EXCEPT
                         !.start = clock,
                         !.body = [r.body EXCEPT !.title = <<TrimSpace(title)>>,
                                                 !.author = <<TrimSpace(author)>>,
                                                 !.year = <<year>>]])
    /\ UNCHANGED <<books, nextId, clock, writes>>

\* CreateBook: the INSERT and LastInsertId.
CreateBook_Insert(p, err) ==
    /\ pc[p] = "create_insert"
    /\ IF err \/ DataTooLong(local[p].body)
       THEN /\ Reply(p, 500, <<>>)
            /\ UNCHANGED <<books, nextId, local, writes>>
       ELSE /\ Written
            /\ books' = InsertRow(books, nextId, local[p].body, clock)
            /\ nextId' = nextId + 1
            /\ local' = [local EXCEPT ![p].id = nextId]
            /\ pc' = [pc EXCEPT ![p] = "create_reread"]
            /\ UNCHANGED resp
    /\ UNCHANGED <<clock, req, pre>>

\* CreateBook: return GetBookByID(db, id); the handler answers 201 with
\* whatever came back.
CreateBook_GetBookByID(p, err) ==
    /\ pc[p] = "create_reread"
    /\ IF err
       THEN Reply(p, 500, <<>>)
       ELSE Reply(p, 201, GetBookByID(books, local[p].id))
    /\ UNCHANGED <<books, nextId, clock, req, local, pre, writes>>

----------------------------------------------------------------------------
(* GET /books/{id} *)

BookHandler_GetBook(p, r) ==
    /\ r.op = "get"
    /\ Arrive(p, r)
    /\ LET id == Atoi(r.idStr)
       IN  IF ~id.ok
           THEN /\ Reply(p, 400, <<>>)
                /\ local' = [local EXCEPT ![p] = NoLocal]
           ELSE Proceed(p, "get_read",
                        [NoLocal EXCEPT !.id = id.val, !.start = clock])
    /\ UNCHANGED <<books, nextId, clock, writes>>

GetBook_GetBookByID(p, err) ==
    /\ pc[p] = "get_read"
    /\ IF err
       THEN Reply(p, 500, <<>>)
       ELSE LET book == GetBookByID(books, local[p].id)
            IN  Reply(p, FoundStatus(book, 200), book)
    /\ UNCHANGED <<books, nextId, clock, req, local, pre, writes>>

----------------------------------------------------------------------------
(* PUT /books/{id} *)

BookHandler_UpdateBook(p, r) ==
    /\ r.op = "update"
    /\ Arrive(p, r)
    /\ LET id == Atoi(r.idStr)
           b == r.body
       IN  IF ~id.ok
              \/ ~b.json
              \/ (b.title # <<>> /\ TrimSpace(b.title[1]) = <<>>)
              \/ (b.author # <<>> /\ TrimSpace(b.author[1]) = <<>>)
              \/ (b.year # <<>> /\ ~ValidYear(b.year[1]))
           THEN /\ Reply(p, 400, <<>>)
                /\ local' = [local EXCEPT ![p] = NoLocal]
           ELSE Proceed(p, "update_read",
                  [NoLocal EXCEPT
                     !.id = id.val,
                     !.start = clock,
                     !.body = [b EXCEPT
                        !.title = IF @ # <<>> THEN <<TrimSpace(@[1])>> ELSE @,
                        !.author = IF @ # <<>> THEN <<TrimSpace(@[1])>> ELSE @]])
    /\ UNCHANGED <<books, nextId, clock, writes>>

\* UpdateBook: the existence check, and the early return when nothing is
\* to be updated.
UpdateBook_GetBookByID(p, err) ==
    /\ pc[p] = "update_read"
    /\ LET existing == GetBookByID(books, local[p].id)
       IN  IF err THEN Reply(p, 500, <<>>)
           ELSE IF existing = <<>> THEN Reply(p, FoundStatus(<<>>, 200), <<>>)
           ELSE IF NumUpdates(local[p].body) = 0
                THEN Reply(p, FoundStatus(existing, 200), existing)
           ELSE /\ pc' = [pc EXCEPT ![p] = "update_exec"]
                /\ UNCHANGED resp
    /\ UNCHANGED <<books, nextId, clock, req, local, pre, writes>>

\* UpdateBook: the UPDATE statement.
UpdateBook_Exec(p, err) ==
    /\ pc[p] = "update_exec"
    /\ IF err \/ DataTooLong(local[p].body)
       THEN /\ Reply(p, 500, <<>>)
            /\ UNCHANGED <<books, writes>>
       ELSE /\ Written
            /\ books' = UpdateRows(books, local[p].id, local[p].body, clock)
            /\ pc' = [pc EXCEPT ![p] = "update_reread"]
            /\ UNCHANGED resp
    /\ UNCHANGED <<nextId, clock, req, local, pre>>

\* UpdateBook: return GetBookByID(db, id); the handler's nil check.
UpdateBook_Reread(p, err) ==
    /\ pc[p] = "update_reread"
    /\ IF err
       THEN Reply(p, 500, <<>>)
       ELSE LET book == GetBookByID(books, local[p].id)
            IN  Reply(p, FoundStatus(book, 200), book)
    /\ UNCHANGED <<books, nextId, clock, req, local, pre, writes>>

----------------------------------------------------------------------------
(* DELETE /books/{id} *)

BookHandler_DeleteBook(p, r) ==
    /\ r.op = "delete"
    /\ Arrive(p, r)
    /\ LET id == Atoi(r.idStr)
       IN  IF ~id.ok
           THEN /\ Reply(p, 400, <<>>)
                /\ local' = [local EXCEPT ![p] = NoLocal]
           ELSE Proceed(p, "delete_read",
                        [NoLocal EXCEPT !.id = id.val, !.start = clock])
    /\ UNCHANGED <<books, nextId, clock, writes>>

\* DeleteBook: the existence check; sql.ErrNoRows becomes 404.
DeleteBook_GetBookByID(p, err) ==
    /\ pc[p] = "delete_read"
    /\ IF err THEN Reply(p, 500, <<>>)
       ELSE IF GetBookByID(books, local[p].id) = <<>>
            THEN Reply(p, 404, <<>>)
       ELSE /\ pc' = [pc EXCEPT ![p] = "delete_exec"]
            /\ UNCHANGED resp
    /\ UNCHANGED <<books, nextId, clock, req, local, pre, writes>>

\* DeleteBook: the DELETE statement; the success envelope has no data.
DeleteBook_Exec(p, err) ==
    /\ pc[p] = "delete_exec"
    /\ IF err
       THEN /\ Reply(p, 500, <<>>)
            /\ UNCHANGED <<books, writes>>
       ELSE /\ Written
            /\ books' = DeleteRows(books, local[p].id)
            /\ Reply(p, 200, <<>>)
    /\ UNCHANGED <<nextId, clock, req, local, pre>>

----------------------------------------------------------------------------
(* GET /books *)

\* page := 1, replaced by the page parameter when it parses and is > 0.
EffectivePage(pageStr) ==
    LET pg == Atoi(pageStr)
    IN  IF pageStr # <<>> /\ pg.ok /\ pg.val > 0 THEN pg.val ELSE 1

\* A limit parameter taken whenever it parses and is > 0.
EffectiveLimitNoCap(limitStr) ==
    LET lm == Atoi(limitStr)
    IN  IF limitStr # <<>> /\ lm.ok /\ lm.val > 0 THEN lm.val ELSE 10

\* limit := 10, replaced by the limit parameter when it parses and is in
\* 1..100.
EffectiveLimit(limitStr) ==
    LET lm == Atoi(limitStr)
    IN  IF limitStr # <<>> /\ lm.ok /\ lm.val > 0 /\ lm.val <= 100
        THEN lm.val ELSE 10

BookHandler_GetBooks(p, r) ==
    /\ r.op = "list"
    /\ Arrive(p, r)
    /\ LET searchQuery == TrimSpace(r.q)
           page == EffectivePage(r.pageStr)
           limit == EffectiveLimit(r.limitStr)
       IN  Proceed(p, IF searchQuery # <<>> THEN "search_count" ELSE "getbooks_count",
                   [NoLocal EXCEPT !.start = clock, !.page = page,
                                   !.limit = limit, !.q = searchQuery])
    /\ UNCHANGED <<books, nextId, clock, writes>>

\* The handler's paginated envelope; Data holds the slice the accessor
\* returned, which is nil (JSON null) when no row was appended to it.
ReplyPage(p, rows) ==
    /\ pc' = [pc EXCEPT ![p] = "done"]
    /\ resp' = [resp EXCEPT ![p] =
                  [status |-> 200, data |-> rows, null |-> (rows = <<>>),
                   page |-> local[p].page, limit |-> local[p].limit,
                   total |-> local[p].total,
                   total_pages |-> TotalPages(local[p].total, local[p].limit)]]

\* GetBooks: SELECT COUNT(*) FROM books
GetBooks_Count(p, err) ==
    /\ pc[p] = "getbooks_count"
    /\ IF err
       THEN Reply(p, 500, <<>>) /\ UNCHANGED local
       ELSE /\ local' = [local EXCEPT ![p].total = Cardinality(DOMAIN books),
                                      ![p].mark = writes]
            /\ pc' = [pc EXCEPT ![p] = "getbooks_query"]
            /\ UNCHANGED resp
    /\ UNCHANGED <<books, nextId, clock, req, pre, writes>>

\* GetBooks: the page query and the scan of its rows.
GetBooks_Query(p, err) ==
    /\ pc[p] = "getbooks_query"
    /\ IF err
       THEN Reply(p, 500, <<>>)
       ELSE \E s \in OrderedRows(books, DOMAIN books) :
               ReplyPage(p, PageOf(books, s, local[p].limit,
                                   (local[p].page - 1) * local[p].limit))
    /\ UNCHANGED <<books, nextId, clock, req, local, pre, writes>>

\* SearchBooks: SELECT COUNT(*) ... WHERE title LIKE ? OR author LIKE ?
SearchBooks_Count(p, err) ==
    /\ pc[p] = "search_count"
    /\ IF err
       THEN Reply(p, 500, <<>>) /\ UNCHANGED local
       ELSE /\ local' = [local EXCEPT
                           ![p].total = Cardinality(Matching(books, local[p].q)),
                           ![p].mark = writes]
            /\ pc' = [pc EXCEPT ![p] = "search_query"]
            /\ UNCHANGED resp
    /\ UNCHANGED <<books, nextId, clock, req, pre, writes>>

\* SearchBooks: the page query and the scan of its rows.
SearchBooks_Query(p, err) ==
    /\ pc[p] = "search_query"
    /\ IF err
       THEN Reply(p, 500, <<>>)
       ELSE \E s \in OrderedRows(books, Matching(books, local[p].q)) :
               ReplyPage(p, PageOf(books, s, local[p].limit,
                                   (local[p].page - 1) * local[p].limit))
    /\ UNCHANGED <<books, nextId, clock, req, local, pre, writes>>

----------------------------------------------------------------------------
(* The environment *)

\* A second passes on the storage engine's clock.
Tick ==
    /\ clock < MaxClock
    /\ clock' = clock + 1
    /\ UNCHANGED <<books, nextId, pc, req, local, resp, pre, writes>>

\* The response has been sent; the client may send its next request.
Finish(p) ==
    /\ pc[p] = "done"
    /\ pc' = [pc EXCEPT ![p] = "idle"]
    /\ req' = [req EXCEPT ![p] = NoReq]
    /\ local' = [local EXCEPT ![p] = NoLocal]
    /\ resp' = [resp EXCEPT ![p] = NoResp]
    /\ pre' = [pre EXCEPT ![p] = <<>>]
    /\ UNCHANGED <<books, nextId, clock, writes>>

----------------------------------------------------------------------------
(* Requests served one at a time, any statement of which may fail *)

\* RunMigrations on an empty database: no rows, AUTO_INCREMENT at 1.
InitTable ==
    /\ books = <<>>
    /\ nextId = 1
    /\ clock = 0
    /\ writes = 0

InitClients(n) ==
    /\ pc = [p \in 1..n |-> "idle"]
    /\ req = [p \in 1..n |-> NoReq]
    /\ local = [p \in 1..n |-> NoLocal]
    /\ resp = [p \in 1..n |-> NoResp]
    /\ pre = [p \in 1..n |-> <<>>]

Init == InitTable /\ InitClients(1)

Next ==
    \/ \E p \in Clients, r \in Requests :
          \/ BookHandler_CreateBook(p, r)
          \/ BookHandler_GetBook(p, r)
          \/ BookHandler_UpdateBook(p, r)
          \/ BookHandler_DeleteBook(p, r)
    \/ \E p \in Clients, err \in BOOLEAN :
          \/ CreateBook_Insert(p, err)
          \/ CreateBook_GetBookByID(p, err)
          \/ GetBook_GetBookByID(p, err)
          \/ UpdateBook_GetBookByID(p, err)
          \/ UpdateBook_Exec(p, err)
          \/ UpdateBook_Reread(p, err)
          \/ DeleteBook_GetBookByID(p, err)
          \/ DeleteBook_Exec(p, err)
    \/ \E p \in Clients : Finish(p)
    \/ Tick

Spec == Init /\ [][Next]_vars

----------------------------------------------------------------------------
(* Listing and searching a table that creates fill, one request at a time *)

NextList ==
    \/ \E p \in Clients, r \in ListCreateRequests \cup ListRequests :
          \/ BookHandler_CreateBook(p, r)
          \/ BookHandler_GetBooks(p, r)
    \/ \E p \in Clients, err \in BOOLEAN :
          \/ CreateBook_Insert(p, err)
          \/ CreateBook_GetBookByID(p, err)
          \/ GetBooks_Count(p, err)
          \/ GetBooks_Query(p, err)
          \/ SearchBooks_Count(p, err)
          \/ SearchBooks_Query(p, err)
    \/ \E p \in Clients : Finish(p)
    \/ Tick

SpecList == Init /\ [][NextList]_vars

----------------------------------------------------------------------------
(* An update and a delete of one row in flight together, storage sound *)

RaceBodies ==
    { NoBody,
      [NoBody EXCEPT !.title = << <<" ", "b">> >>],
      [NoBody EXCEPT !.available = <<FALSE>>],
      [NoBody EXCEPT !.title = << <<"b">> >>, !.author = << <<"D">> >>,
                     !.year = <<2100>>, !.available = <<FALSE>>] }

RaceRequests ==
    { [NoReq EXCEPT !.op = "update", !.idStr = <<"1">>, !.body = b] :
        b \in RaceBodies }
    \cup { [NoReq EXCEPT !.op = "delete", !.idStr = <<"1">>] }

\* The table after one create: a single row, id 1.
InitRace ==
    /\ books = InsertRow(<<>>, 1,
                  [NoBody EXCEPT !.title = << <<"A", "b">> >>,
                                 !.author = << <<"c">> >>, !.year = <<1000>>],
                  0)
    /\ nextId = 2
    /\ clock = 0
    /\ writes = 0
    /\ InitClients(NumClients)

\* Each client sends one request; no statement fails.
NextRace ==
    \/ \E p \in Clients, r \in RaceRequests :
          \/ BookHandler_UpdateBook(p, r)
          \/ BookHandler_DeleteBook(p, r)
    \/ \E p \in Clients :
          \/ UpdateBook_GetBookByID(p, FALSE)
          \/ UpdateBook_Exec(p, FALSE)
          \/ UpdateBook_Reread(p, FALSE)
          \/ DeleteBook_GetBookByID(p, FALSE)
          \/ DeleteBook_Exec(p, FALSE)
    \/ Tick

SpecRace == InitRace /\ [][NextRace]_vars

\* Lists and searches running while other requests create and delete:
\* the table starts with one book, each client sends one request, and no
\* statement fails.
ListRaceRequests ==
    { [NoReq EXCEPT !.op = "list", !.pageStr = pl[1], !.limitStr = pl[2],
                    !.q = q] :
        pl \in { << <<>>, <<"1">> >>, << <<"2">>, <<"1">> >> },
        q \in {<<>>, <<"b">>} }
    \cup { [NoReq EXCEPT !.op = "create",
                         !.body = [NoBody EXCEPT !.title = << <<"b">> >>,
                                                 !.author = << <<"D">> >>,
                                                 !.year = <<2100>>]],
           [NoReq EXCEPT !.op = "delete", !.idStr = <<"1">>] }

NextListRace ==
    \/ \E p \in Clients :
          \/ \E r \in ListRaceRequests :
                \/ BookHandler_GetBooks(p, r)
                \/ BookHandler_CreateBook(p, r)
                \/ BookHandler_DeleteBook(p, r)
          \/ GetBooks_Count(p, FALSE)
          \/ GetBooks_Query(p, FALSE)
          \/ SearchBooks_Count(p, FALSE)
          \/ SearchBooks_Query(p, FALSE)
          \/ CreateBook_Insert(p, FALSE)
          \/ CreateBook_GetBookByID(p, FALSE)
          \/ DeleteBook_GetBookByID(p, FALSE)
          \/ DeleteBook_Exec(p, FALSE)
    \/ Tick

SpecListRace == InitRace /\ [][NextListRace]_vars

----------------------------------------------------------------------------
(* What the claims speak of, stated without the model's own helpers *)

Done(p, op) == pc[p] = "done" /\ req[p].op = op

NonBlank(s) == \E i \in 1..Len(s) : s[i] \notin Space

\* t is s without its leading and trailing white space.
IsTrimOf(t, s) ==
    /\ t # <<>> => (t[1] \notin Space /\ t[Len(t)] \notin Space)
    /\ \E i \in 0..Len(s) :
          /\ i + Len(t) <= Len(s)
          /\ SubSeq(s, i + 1, i + Len(t)) = t
          /\ \A k \in 1..Len(s) : (k <= i \/ k > i + Len(t)) => s[k] \in Space

\* s is an optional sign followed by decimal digits.
LooksInteger(s) ==
    /\ s # <<>>
    /\ s[1] \in Digits \cup {"+", "-"}
    /\ \A k \in 2..Len(s) : s[k] \in Digits
    /\ \E k \in 1..Len(s) : s[k] \in Digits

InRange(y) == y >= 1000 /\ y <= 2100

\* A create body that the documented validation accepts.
CreateValid(b) ==
    /\ b.json
    /\ b.title # <<>> /\ NonBlank(b.title[1])
    /\ b.author # <<>> /\ NonBlank(b.author[1])
    /\ b.year # <<>> /\ InRange(b.year[1])

\* An update body that the documented validation accepts.
UpdateValid(b) ==
    /\ b.json
    /\ b.title # <<>> => NonBlank(b.title[1])
    /\ b.author # <<>> => NonBlank(b.author[1])
    /\ b.year # <<>> => InRange(b.year[1])

SuppliesNothing(b) ==
    b.title = <<>> /\ b.author = <<>> /\ b.year = <<>> /\ b.available = <<>>

\* Ids that were assigned and whose rows are gone.
DeletedIds(tbl) == {i \in 1..(nextId - 1) : i \notin DOMAIN tbl}

----------------------------------------------------------------------------
(* Claims, requests served one at a time (Spec) *)

C2_UpdateFrame ==
    \A p \in Clients :
        (Done(p, "update") /\ resp[p].status = 200) =>
            LET id == local[p].id
                r == req[p].body
            IN  /\ id \in DOMAIN pre[p]
                /\ DOMAIN books = DOMAIN pre[p]
                /\ \A j \in DOMAIN books \ {id} : books[j] = pre[p][j]
                /\ LET old == pre[p][id]
                       new == books[id]
                   IN  /\ IF r.title = <<>> THEN new.title = old.title
                          ELSE IsTrimOf(new.title, r.title[1])
                       /\ IF r.author = <<>> THEN new.author = old.author
                          ELSE IsTrimOf(new.author, r.author[1])
                       /\ IF r.year = <<>>
                          THEN new.published_year = old.published_year
                          ELSE new.published_year = r.year[1]
                       /\ IF r.available = <<>>
                          THEN new.available = old.available
                          ELSE new.available = r.available[1]
                       /\ new.created_at = old.created_at
                /\ resp[p].data = <<Book(books, id)>>

C2_Witness ==
    \E p \in Clients :
        /\ Done(p, "update")
        /\ resp[p].status = 200
        /\ req[p].body.title # <<>>
        /\ req[p].body.available = <<>>
        /\ ~pre[p][local[p].id].available
        /\ Cardinality(DOMAIN books) = 2

\* C3: a row once deleted stays absent whatever follows; deleting a row
\* that is there is answered 200 (500 when storage fails) and removes it;
\* a get or delete of a deleted id is answered 404 (500 when storage fails).
C3_DeletedStaysDeleted ==
    [][ /\ \A i \in DeletedIds(books) : i \notin DOMAIN books'
        /\ \A p \in Clients :
             (pc[p] \notin {"idle", "done"} /\ pc'[p] = "done"
                /\ resp'[p].status # 500) =>
                 LET id == local[p].id
                 IN  /\ (req[p].op = "delete" /\ id \in DOMAIN pre[p]) =>
                            (resp'[p].status = 200 /\ id \notin DOMAIN books')
                     /\ (req[p].op \in {"get", "delete"}
                           /\ id \in DeletedIds(pre[p])) =>
                            resp'[p].status = 404
      ]_vars

C3_Witness ==
    \E p \in Clients :
        /\ Done(p, "delete")
        /\ resp[p].status = 404
        /\ local[p].id \in DeletedIds(books)
        /\ books # <<>>

\* C4: a create or update carrying a published_year outside 1000..2100 is
\* answered 400 and changes nothing; 1000 and 2100 are not rejected; every
\* row of the table has its published_year within 1000..2100.
C4_YearBounds ==
    /\ \A i \in DOMAIN books : InRange(books[i].published_year)
    /\ \A p \in Clients :
         /\ (Done(p, "create")
               /\ (req[p].body.year = <<>> \/ ~InRange(req[p].body.year[1]))) =>
               (resp[p].status = 400 /\ books = pre[p])
         /\ (Done(p, "update")
               /\ req[p].body.year # <<>> /\ ~InRange(req[p].body.year[1])) =>
               (resp[p].status = 400 /\ books = pre[p])
         /\ (Done(p, "create") /\ CreateValid(req[p].body)
               /\ req[p].body.year[1] \in {1000, 2100}) =>
               resp[p].status \in {201, 500}
         /\ (Done(p, "update") /\ UpdateValid(req[p].body)
               /\ LooksInteger(req[p].idStr)
               /\ req[p].body.year # <<>>
               /\ req[p].body.year[1] \in {1000, 2100}) =>
               resp[p].status \in {200, 404, 500}

C4_Witness ==
    \E p \in Clients :
        /\ Done(p, "update")
        /\ req[p].body.year = <<2101>>
        /\ resp[p].status = 400
        /\ LooksInteger(req[p].idStr)
        /\ Atoi(req[p].idStr).val \in DOMAIN books
        /\ books[Atoi(req[p].idStr).val].published_year = 2100

\* C5 as stated: every update answered 200, also one that supplies no field,
\* leaves updated_at strictly greater than it was.
C5_UpdatedAtStrictlyAdvances ==
    \A p \in Clients :
        (Done(p, "update") /\ resp[p].status = 200) =>
            books[local[p].id].updated_at > pre[p][local[p].id].updated_at

\* C5 as amended: an update answered 200 that supplies a field sets
\* updated_at to the storage clock's reading at its write, which is never
\* before the old updated_at nor before the request's arrival and never
\* after the present; one that supplies no field leaves updated_at as it was.
C5_UpdatedAtFollowsClock ==
    \A p \in Clients :
        (Done(p, "update") /\ resp[p].status = 200) =>
            LET old == pre[p][local[p].id].updated_at
                new == books[local[p].id].updated_at
            IN  IF SuppliesNothing(req[p].body)
                THEN new = old
                ELSE new >= old /\ new >= local[p].start /\ new <= clock

C5_Witness ==
    \E p \in Clients :
        /\ Done(p, "update")
        /\ resp[p].status = 200
        /\ ~SuppliesNothing(req[p].body)
        /\ books[local[p].id].updated_at = pre[p][local[p].id].updated_at
        /\ books[local[p].id] # pre[p][local[p].id]

\* C8: for get, update and delete a path id that is no integer is answered
\* 400; an integer id with no row (and, for update, an acceptable body) is
\* answered 404 (500 when storage fails); whatever is answered 400 or 404
\* has left the table as it was.
C8_BadIdAndNotFound ==
    \A p \in Clients :
        /\ (pc[p] = "done" /\ req[p].op \in {"get", "update", "delete"}
              /\ ~LooksInteger(req[p].idStr)) =>
              resp[p].status = 400
        /\ (pc[p] = "done" /\ req[p].op \in {"get", "update", "delete"}
              /\ LooksInteger(req[p].idStr)
              /\ (req[p].op = "update" => UpdateValid(req[p].body))
              /\ Atoi(req[p].idStr).val \notin DOMAIN pre[p]
              /\ resp[p].status # 500) =>
              resp[p].status = 404
        /\ (pc[p] = "done" /\ resp[p].status \in {400, 404}) =>
              books = pre[p]

C8_Witness ==
    \E p \in Clients :
        /\ Done(p, "update")
        /\ resp[p].status = 404
        /\ req[p].body.title # <<>>
        /\ books # <<>>

\* C9 as stated: a create, update or delete answered 500 has left the table
\* as it was before the request.
C9_FailureLeavesTableUntouched ==
    \A p \in Clients :
        (pc[p] = "done" /\ req[p].op \in {"create", "update", "delete"}
           /\ resp[p].status = 500) =>
            books = pre[p]

----------------------------------------------------------------------------
(* Claims about listing and searching (SpecList) *)

\* q occurs in s as a run of characters, letters compared without case.
Contains(s, q) ==
    \E i \in 0..(Len(s) - Len(q)) :
        \A k \in 1..Len(q) : Fold(s[i + k]) = Fold(q[k])

\* The rows the storage considers for the list request of client p.
Considered(p) ==
    IF local[p].q = <<>> THEN DOMAIN books ELSE Matching(books, local[p].q)

\* C6 as stated: a list answered 200 reports total = T, the number of rows
\* considered, and total_pages = ceil(T / limit), 0 when T = 0; for a page
\* beyond total_pages the data is an empty array.
C6_TotalsAndEmptyPage ==
    \A p \in Clients :
        (Done(p, "list") /\ resp[p].status = 200) =>
            LET T == Cardinality(Considered(p))
                L == resp[p].limit
            IN  /\ resp[p].total = T
                /\ resp[p].total_pages * L >= T
                /\ (resp[p].total_pages - 1) * L < T
                /\ resp[p].total_pages >= 0
                /\ resp[p].page > resp[p].total_pages =>
                       (resp[p].data = <<>> /\ ~resp[p].null)

\* The part of C6 that is about the numbers alone: total, total_pages, and
\* no row on a page beyond total_pages.
C6_TotalsAndPageCount ==
    \A p \in Clients :
        (Done(p, "list") /\ resp[p].status = 200) =>
            LET T == Cardinality(Considered(p))
                L == resp[p].limit
            IN  /\ resp[p].total = T
                /\ resp[p].total_pages * L >= T
                /\ (resp[p].total_pages - 1) * L < T
                /\ resp[p].total_pages >= 0
                /\ resp[p].page > resp[p].total_pages => resp[p].data = <<>>

\* C7 as stated: with a q that is not blank the rows counted and returned
\* are exactly those whose title or author contains the trimmed q as a
\* literal substring, letters compared without case; with a blank q all
\* rows are.
C7_SearchIsLiteralSubstring ==
    \A p \in Clients :
        (Done(p, "list") /\ resp[p].status = 200) =>
            LET q == local[p].q
                hits == IF ~NonBlank(req[p].q) THEN DOMAIN books
                        ELSE {i \in DOMAIN books :
                                 Contains(books[i].title, q)
                                 \/ Contains(books[i].author, q)}
                got == {resp[p].data[k].id : k \in 1..Len(resp[p].data)}
            IN  /\ IsTrimOf(q, req[p].q)
                /\ resp[p].total = Cardinality(hits)
                /\ got \subseteq hits
                /\ (resp[p].page = 1 /\ resp[p].limit >= Cardinality(hits)) =>
                       got = hits

----------------------------------------------------------------------------
(* Claims about an update racing a delete (SpecRace) *)

\* C10: when one update and one delete of the same existing id are the only
\* requests, in whatever order their statements interleave the delete is
\* answered 200, the row is gone at the end, and the update is answered
\* either 404 without a record or 200 with the record as its own write left
\* it: supplied fields as supplied (trimmed), the others and created_at as
\* they were, updated_at as it was when nothing was supplied.
C10_UpdateDeleteRace ==
    \A p, d \in Clients :
        (Done(p, "update") /\ Done(d, "delete")
           /\ \A c \in Clients \ {p, d} : pc[c] = "idle") =>
            /\ resp[d].status = 200
            /\ local[p].id \notin DOMAIN books
            /\ resp[p].status \in {200, 404}
            /\ resp[p].status = 404 => resp[p].data = <<>>
            /\ resp[p].status = 200 =>
                 /\ Len(resp[p].data) = 1
                 /\ local[p].id \in DOMAIN pre[p]
                 /\ LET old == Book(pre[p], local[p].id)
                        new == resp[p].data[1]
                        r == req[p].body
                    IN  /\ new.id = old.id
                        /\ IF r.title = <<>> THEN new.title = old.title
                           ELSE IsTrimOf(new.title, r.title[1])
                        /\ IF r.author = <<>> THEN new.author = old.author
                           ELSE IsTrimOf(new.author, r.author[1])
                        /\ IF r.year = <<>>
                           THEN new.published_year = old.published_year
                           ELSE new.published_year = r.year[1]
                        /\ IF r.available = <<>>
                           THEN new.available = old.available
                           ELSE new.available = r.available[1]
                        /\ new.created_at = old.created_at
                        /\ IF SuppliesNothing(r)
                           THEN new.updated_at = old.updated_at
                           ELSE /\ new.updated_at >= local[p].start
                                /\ new.updated_at <= clock

\* The update wrote, the delete then removed the row, and the update's
\* re-read found nothing.
C10_Witness ==
    \E p, d \in Clients :
        /\ Done(p, "update")
        /\ Done(d, "delete")
        /\ resp[p].status = 404
        /\ resp[d].status = 200
        /\ local[p].id \in DOMAIN pre[p]
        /\ local[d].id \in DOMAIN pre[d]
        /\ writes = 2

----------------------------------------------------------------------------
(* Claims about stored text, paging and concurrent requests *)

\* A stored text of the kind the API promises: not empty, no white space
\* at either end, no longer than the column.
WellFormedText(s) ==
    /\ s # <<>>
    /\ s[1] \notin Space
    /\ s[Len(s)] \notin Space
    /\ Len(s) <= 255

\* A supplied text that is empty or all white space.
SuppliedBlank(opt) == opt # <<>> /\ ~NonBlank(opt[1])

\* C11: after any sequence of creates and updates every row's title and
\* author are non-empty, without leading or trailing white space, and at
\* most 255 characters long; a create whose title or author is missing or
\* blank, and an update that supplies a blank title or author, is answered
\* 400 and stores nothing.
C11_StoredTextWellFormed ==
    /\ \A i \in DOMAIN books :
          WellFormedText(books[i].title) /\ WellFormedText(books[i].author)
    /\ \A p \in Clients :
          /\ (Done(p, "create")
                /\ (req[p].body.title = <<>> \/ SuppliedBlank(req[p].body.title)
                    \/ req[p].body.author = <<>>
                    \/ SuppliedBlank(req[p].body.author))) =>
                (resp[p].status = 400 /\ books = pre[p])
          /\ (Done(p, "update")
                /\ (SuppliedBlank(req[p].body.title)
                    \/ SuppliedBlank(req[p].body.author))) =>
                (resp[p].status = 400 /\ books = pre[p])

\* An update whose author is longer than the column has been turned down
\* by the server, on a table whose row was created from an untrimmed title.
C11_Witness ==
    \E p \in Clients :
        /\ Done(p, "update")
        /\ req[p].body.author # <<>>
        /\ Len(req[p].body.author[1]) > 255
        /\ resp[p].status = 500
        /\ local[p].id \in DOMAIN books
        /\ books[local[p].id].title = <<"A", "b">>
        /\ books = pre[p]

\* The orders of the rows `ids` of the table that put a row created later
\* before a row created earlier.
NewestFirst(ids) ==
    {s \in [1..Cardinality(ids) -> ids] :
        /\ \A i \in DOMAIN s : \A j \in DOMAIN s : s[i] = s[j] => i = j
        /\ \A i \in DOMAIN s :
              i > 1 => books[s[i - 1]].created_at >= books[s[i]].created_at}

\* The value of a query parameter that has to be an integer in lo..hi.
ParamOr(str, lo, hi, default) ==
    IF LooksInteger(str) /\ Atoi(str).val >= lo /\ Atoi(str).val <= hi
    THEN Atoi(str).val
    ELSE default

\* C12: a list answered 200 reports as page the page parameter when that
\* is an integer > 0 and 1 otherwise, as limit the limit parameter when
\* that is an integer in 1..100 and 10 otherwise, and returns the at most
\* `limit` rows from offset (page-1)*limit on of the rows considered,
\* newest created_at first.
C12_EffectivePageAndLimit ==
    \A p \in Clients :
        (Done(p, "list") /\ resp[p].status = 200) =>
            LET page == IF LooksInteger(req[p].pageStr)
                           /\ Atoi(req[p].pageStr).val > 0
                        THEN Atoi(req[p].pageStr).val ELSE 1
                limit == ParamOr(req[p].limitStr, 1, 100, 10)
                offset == (page - 1) * limit
                T == Cardinality(Considered(p))
                n == IF T - offset < 0 THEN 0
                     ELSE IF T - offset < limit THEN T - offset ELSE limit
            IN  /\ resp[p].page = page
                /\ resp[p].limit = limit
                /\ Len(resp[p].data) = n
                /\ \E s \in NewestFirst(Considered(p)) :
                      \A k \in 1..n :
                          /\ resp[p].data[k].id = s[offset + k]
                          /\ resp[p].data[k] = Book(books, s[offset + k])

\* The second page of one row each, of a table whose rows were created in
\* different seconds, has been returned.
C12_Witness ==
    \E p \in Clients :
        /\ Done(p, "list")
        /\ resp[p].status = 200
        /\ req[p].pageStr = <<"2">>
        /\ resp[p].page = 2
        /\ resp[p].limit = 1
        /\ Len(resp[p].data) = 1
        /\ \E i \in DOMAIN books :
              books[i].created_at > resp[p].data[1].created_at

\* C13: an update of an existing row whose body supplies none of title,
\* author, published_year, available never reaches the UPDATE statement;
\* it is answered 200 (500 when the existence read fails) with the
\* existing record, and the table, updated_at included, is as it was
\* when the request arrived.
C13_NoFieldUpdateWritesNothing ==
    \A p \in Clients :
        (req[p].op = "update" /\ req[p].body.json
           /\ SuppliesNothing(req[p].body)) =>
            /\ pc[p] \notin {"update_exec", "update_reread"}
            /\ (pc[p] = "done" /\ LooksInteger(req[p].idStr)
                  /\ Atoi(req[p].idStr).val \in DOMAIN pre[p]
                  /\ resp[p].status # 500) =>
                  /\ resp[p].status = 200
                  /\ books = pre[p]
                  /\ resp[p].data =
                        <<Book(pre[p], Atoi(req[p].idStr).val)>>

\* A no-field update was answered 200 a second after the row was last
\* written.
C13_Witness ==
    \E p \in Clients :
        /\ Done(p, "update")
        /\ req[p].body.json
        /\ SuppliesNothing(req[p].body)
        /\ resp[p].status = 200
        /\ Len(resp[p].data) = 1
        /\ resp[p].data[1].updated_at < local[p].start

\* C15 as stated: of the delete requests for one id at most one is
\* answered 200, in every interleaving; once one delete of the id has been
\* answered 200, every other delete of that id is answered 404.
C15_AtMostOneDeleteSucceeds ==
    \A p \in Clients : \A d \in Clients :
        (p # d /\ Done(p, "delete") /\ Done(d, "delete")
           /\ local[p].id = local[d].id
           /\ resp[p].status = 200) =>
            resp[d].status = 404

\* The number of rows the totals of a list response announce for its page:
\* min(limit, max(0, total - (page-1)*limit)).
AnnouncedRows(r) ==
    LET rest == r.total - (r.page - 1) * r.limit
    IN  IF rest < 0 THEN 0 ELSE IF rest < r.limit THEN rest ELSE r.limit

\* C14: list and search take the count and the page in two statements;
\* when no write statement of another request ran between the two, the
\* number of rows in the response is min(limit, max(0, total -
\* (page-1)*limit)) for the total of that response (C14_Witness is a
\* response for which, a write having run in between, it is not).
C14_ConsistentWithoutInterleavedWrite ==
    [][\A p \in Clients :
          (pc[p] \in {"getbooks_query", "search_query"}
             /\ pc'[p] = "done"
             /\ resp'[p].status = 200
             /\ local[p].mark = writes) =>
              Len(resp'[p].data) = AnnouncedRows(resp'[p])]_vars

\* A list response whose rows are not the number its total announces:
\* another request's write ran between the count and the page query.
C14_Witness ==
    \E p \in Clients :
        /\ Done(p, "list")
        /\ resp[p].status = 200
        /\ Len(resp[p].data) # AnnouncedRows(resp[p])

====
